---- MODULE Spec2Model ----
(***************************************************************************)
(* Model of the Firebase token verifier of src/src/config/firebase.rs:     *)
(* construction (FirebaseAuth::new, Default), the key fetcher (fetch_keys, *)
(* parse_max_age), the cached key snapshot behind the tokio RwLock, the    *)
(* production path of verify_token and the emulator path                   *)
(* (verify_emulator_token, base64_decode).                                 *)
(*                                                                         *)
(* Time is in whole seconds.  Strings the code parses itself (the          *)
(* Cache-Control header, emulator tokens) are sequences of one-character   *)
(* strings.  Option<T> is a sequence of length 0 (None) or 1 (Some).       *)
(* The external libraries (jsonwebtoken, serde_json, base64) are modelled  *)
(* by what they are documented to do on the inputs the code gives them.    *)
(***************************************************************************)
EXTENDS Integers, Sequences, FiniteSets, TLC

VARIABLES
    phase,          \* position of the constructor: unbuilt, new_fetching, ready, failed, panicked
    use_emulator,   \* FirebaseAuth.use_emulator
    project_id,     \* FirebaseAuth.project_id
    emulator_url,   \* FirebaseAuth.emulator_url (Option)
    keys,           \* the CachedKeys behind Arc<RwLock<..>>
    lock,           \* holder of the RwLock write guard, 0 when free
    now,            \* wall clock, seconds
    proc,           \* per caller: position in verify_token and its locals
    fetches,        \* number of fetch_keys requests sent so far
    newres,         \* what FirebaseAuth::new returned
    fetched,        \* history: arrival time, Cache-Control header and status of the
                    \* response the installed snapshot was made from
    refresh_failed, \* history: some refresh inside verify_token has returned an error
    ticks,          \* clock steps taken (bounds the run)
    ncalls          \* verify_token calls started (bounds the run)

vars == <<phase, use_emulator, project_id, emulator_url, keys, lock, now,
          proc, fetches, newres, fetched, refresh_failed, ticks, ncalls>>

----------------------------------------------------------------------------
(* Bounds of the model *)

NProcs == 2
MaxTicks == 2
MaxCalls == 2
StartTime == 1000

Procs == 1..NProcs

----------------------------------------------------------------------------
(* Program constants *)

KEYS_REFRESH_BUFFER_SECS == 300
DefaultMaxAge == 3600
EmulatorSeedSecs == 3600
Leeway == 60

None == <<>>
Some(x) == <<x>>
IsSome(o) == Len(o) = 1
Unwrap(o) == o[1]
UnwrapOr(o, d) == IF IsSome(o) THEN o[1] ELSE d

----------------------------------------------------------------------------
(* Strings as character sequences: the std operations parse_max_age uses *)

IsWhitespace(c) == c \in {" ", "\t"}

RECURSIVE TrimStart(_)
TrimStart(s) ==
    IF s # <<>> /\ IsWhitespace(Head(s)) THEN TrimStart(Tail(s)) ELSE s

RECURSIVE TrimEnd(_)
TrimEnd(s) ==
    IF s # <<>> /\ IsWhitespace(s[Len(s)])
    THEN TrimEnd(SubSeq(s, 1, Len(s) - 1))
    ELSE s

Trim(s) == TrimEnd(TrimStart(s))

StartsWith(s, pre) ==
    Len(s) >= Len(pre) /\ SubSeq(s, 1, Len(pre)) = pre

StripPrefix(s, pre) ==
    IF StartsWith(s, pre) THEN Some(SubSeq(s, Len(pre) + 1, Len(s))) ELSE None

\* str::split(c): the pieces between occurrences of c; always at least one piece
RECURSIVE SplitAcc(_, _, _)
SplitAcc(s, c, cur) ==
    IF s = <<>> THEN <<cur>>
    ELSE IF Head(s) = c THEN <<cur>> \o SplitAcc(Tail(s), c, <<>>)
    ELSE SplitAcc(Tail(s), c, Append(cur, Head(s)))

Split(s, c) == SplitAcc(s, c, <<>>)

DigitVal(c) ==
    CASE c = "0" -> 0 [] c = "1" -> 1 [] c = "2" -> 2 [] c = "3" -> 3
      [] c = "4" -> 4 [] c = "5" -> 5 [] c = "6" -> 6 [] c = "7" -> 7
      [] c = "8" -> 8 [] c = "9" -> 9 [] OTHER -> -1

RECURSIVE DigitsVal(_, _)
DigitsVal(s, acc) ==
    IF s = <<>> THEN acc ELSE DigitsVal(Tail(s), acc * 10 + DigitVal(Head(s)))

\* str::parse::<u64>(): an optional leading '+', then one or more decimal digits
\* (the header values of the model are far below u64::MAX)
ParseU64(s) ==
    LET d == IF s # <<>> /\ Head(s) = "+" THEN Tail(s) ELSE s
    IN  IF d # <<>> /\ \A i \in 1..Len(d) : DigitVal(d[i]) >= 0
        THEN Some(DigitsVal(d, 0))
        ELSE None

\* Iterator::find: the first element satisfying the predicate
RECURSIVE FindMaxAgeDirective(_)
FindMaxAgeDirective(ds) ==
    IF ds = <<>> THEN None
    ELSE IF StartsWith(Trim(Head(ds)), <<"m", "a", "x", "-", "a", "g", "e", "=">>)
         THEN Some(Head(ds))
         ELSE FindMaxAgeDirective(Tail(ds))

\* Mutant: the header parsed as a single directive, without the split on ','
parse_max_age_unsplit(cache_control) ==
    LET age == StripPrefix(Trim(cache_control),
                           <<"m", "a", "x", "-", "a", "g", "e", "=">>)
    IN  IF IsSome(age) THEN ParseU64(Unwrap(age)) ELSE None

parse_max_age(cache_control) ==
    LET found == FindMaxAgeDirective(Split(cache_control, ","))
    IN  IF ~IsSome(found) THEN None
        ELSE LET age == StripPrefix(Trim(Unwrap(found)),
                                    <<"m", "a", "x", "-", "a", "g", "e", "=">>)
             IN  IF IsSome(age) THEN ParseU64(Unwrap(age)) ELSE None

----------------------------------------------------------------------------
(* Results *)

NoClaims == [aud |-> "", iss |-> <<>>, exp |-> 0, doc |-> <<>>]

\* Result<FirebaseClaims, AppError>, or a panic.  kind is the AppError variant,
\* msg names the message of the error site, detail the library error inside it.
NoResult ==
    [tag |-> "none", kind |-> "", msg |-> "", detail |-> "", claims |-> NoClaims]
Ok(c) == [tag |-> "ok", kind |-> "", msg |-> "", detail |-> "", claims |-> c]
ErrD(k, m, d) ==
    [tag |-> "err", kind |-> k, msg |-> m, detail |-> d, claims |-> NoClaims]
Err(k, m) == ErrD(k, m, "")

\* AppError::into_response: the HTTP status of an error, by its variant
into_response(e) ==
    CASE e.kind = "Authentication" -> 401
      [] e.kind = "Authorization" -> 403
      [] e.kind = "Validation" -> 400
      [] e.kind = "NotFound" -> 404
      [] e.kind \in {"Database", "Redis", "Internal"} -> 500
Panic(m) ==
    [tag |-> "panic", kind |-> "", msg |-> m, detail |-> "", claims |-> NoClaims]

----------------------------------------------------------------------------
(* The key fetcher *)

Kids == {"k1", "k2"}
KeySets == {{"k1"}, {"k2"}, {}}

CcMaxAge600 == <<"m", "a", "x", "-", "a", "g", "e", "=", "6", "0", "0">>
CcPublicMaxAge300 ==
    <<"p", "u", "b", "l", "i", "c", ",", " ",
      "m", "a", "x", "-", "a", "g", "e", "=", "3", "0", "0">>
CcMaxAgeAbc == <<"m", "a", "x", "-", "a", "g", "e", "=", "a", "b", "c">>
CcNoCache == <<"n", "o", "-", "c", "a", "c", "h", "e">>
CcMaxAge60 == <<"m", "a", "x", "-", "a", "g", "e", "=", "6", "0">>
CcMaxAge0 == <<"m", "a", "x", "-", "a", "g", "e", "=", "0">>
CcPlusSign == <<"m", "a", "x", "-", "a", "g", "e", "=", "+", "9", "0", "0">>
CcSpaced == <<"n", "o", "-", "t", "r", "a", "n", "s", "f", "o", "r", "m", ",",
              " ", " ", "m", "a", "x", "-", "a", "g", "e", "=", "6", "0", "0", " ">>
\* "0x80" stands for one byte outside visible ASCII
CcNonAscii == <<"m", "a", "x", "-", "a", "g", "e", "=", "6", "0", "0", "0x80">>
CcDefault == <<"m", "a", "x", "-", "a", "g", "e", "=", "3", "6", "0", "0">>

CacheControlHeaders ==
    {None, Some(CcMaxAge600), Some(CcPublicMaxAge300), Some(CcMaxAgeAbc),
     Some(CcNoCache), Some(CcMaxAge60), Some(CcMaxAge0), Some(CcPlusSign),
     Some(CcSpaced), Some(CcNonAscii)}

\* The headers of the responses concurrent callers get
CoreCacheControlHeaders ==
    {None, Some(CcMaxAge600), Some(CcPublicMaxAge300), Some(CcMaxAge60)}

\* HeaderValue::to_str: None unless every byte is visible ASCII
HeaderToStr(v) ==
    IF \A i \in 1..Len(v) : v[i] # "0x80" THEN Some(v) ELSE None

\* A response of the JWKS endpoint as reqwest hands it over: send() fails on a
\* network error only; a non-2xx status is an ordinary response.  body is what
\* response.json::<JwkSet>() makes of it: None when it does not parse.
Responses ==
    [net : {"ok"}, status : {200, 500}, cc : CacheControlHeaders,
     body : {None} \cup {Some(ks) : ks \in KeySets}]
    \cup {[net |-> "err", status |-> 0, cc |-> None, body |-> None]}

\* The responses concurrent callers get: a network failure, or a 200 with one
\* of the core headers and a body that does not parse or holds one key
CoreResponses ==
    {r \in Responses :
        /\ r.cc \in CoreCacheControlHeaders
        /\ r.body # Some({})
        /\ r.status # 500}

\* fetch_keys lines 101-107: the max-age a response's headers give
ResponseMaxAge(cc) ==
    LET hv == IF IsSome(cc) THEN HeaderToStr(Unwrap(cc)) ELSE None
        cache_control == UnwrapOr(hv, CcDefault)
    IN  UnwrapOr(parse_max_age(cache_control), DefaultMaxAge)

\* The same, tabulated once for the headers of the model
MaxAgeTable == [cc \in CacheControlHeaders |-> ResponseMaxAge(cc)]

NoSnapshot == [jwks |-> {}, expiry |-> 0, gen |-> 0 - 1]

FetchOk(snap) == [tag |-> "ok", snap |-> snap, err |-> NoResult]
FetchErr(e) == [tag |-> "err", snap |-> NoSnapshot, err |-> e]
FetchPanic(m) == [tag |-> "panic", snap |-> NoSnapshot, err |-> Panic(m)]

\* fetch_keys with the response `resp` arriving at time t, as the g-th fetch.
\* max_age - KEYS_REFRESH_BUFFER_SECS is a u64 subtraction: below zero it
\* panics with overflow checks on, and wraps to 2^64 - (300 - max_age) with
\* them off, a Duration that SystemTime::now() + .. cannot represent, which
\* panics as well.
fetch_keys(resp, t, g) ==
    IF resp.net = "err" THEN FetchErr(Err("Internal", "fetch_failed"))
    ELSE
      LET max_age == MaxAgeTable[resp.cc]
      IN  IF max_age < KEYS_REFRESH_BUFFER_SECS
          THEN FetchPanic("expiry_overflow")
          ELSE IF ~IsSome(resp.body)
          THEN FetchErr(Err("Internal", "keys_parse_failed"))
          ELSE FetchOk([jwks |-> Unwrap(resp.body),
                        expiry |-> t + (max_age - KEYS_REFRESH_BUFFER_SECS),
                        gen |-> g])

----------------------------------------------------------------------------
(* Tokens *)

ProjectIds == {"kodemcards", "other"}

\* format!("https://securetoken.google.com/{}", project_id)
Issuer(pid) == <<"https://securetoken.google.com/", pid>>

\* A bearer token.  raw is its text, read by the emulator path.  The other
\* fields are what jsonwebtoken reads from it on the production path: whether
\* the header decodes, the header's kid and alg, the key that produced the
\* signature over header.payload ("attacker" for a key Google never published),
\* and the payload's aud, iss and exp.  A signature verifies under a key, with
\* the algorithm the header names, when signer is that key's kid.
NoToken ==
    [raw |-> <<>>, hdr_ok |-> FALSE, kid |-> None, alg |-> "", signer |-> "",
     aud |-> "", iss |-> <<>>, exp |-> 0]

BaseToken(k, t) ==
    [raw |-> <<>>, hdr_ok |-> TRUE, kid |-> Some(k), alg |-> "RS256",
     signer |-> k, aud |-> "kodemcards", iss |-> Issuer("kodemcards"),
     exp |-> t]

\* Expiry times of the tokens presented: an hour after the start, and around
\* the start itself (at it, just before it, at and beyond the library's leeway)
FarExp == StartTime + 3600
TokenExps == {StartTime - 61, StartTime - 60, StartTime - 1, StartTime}

\* The tokens a caller may present on the production path
JwtTokens ==
    LET b == BaseToken("k1", FarExp)
    IN  {BaseToken(k, FarExp) : k \in Kids}
        \cup {[b EXCEPT !.hdr_ok = FALSE],
              [b EXCEPT !.kid = None],
              [b EXCEPT !.alg = "HS256"],
              [b EXCEPT !.alg = "HS256", !.signer = "attacker"],
              [b EXCEPT !.alg = "HS256", !.kid = Some("k2")],
              [b EXCEPT !.alg = "RS384"],
              [b EXCEPT !.alg = "none", !.signer = ""],
              [b EXCEPT !.signer = "attacker"],
              [b EXCEPT !.signer = "k2"],
              [b EXCEPT !.aud = "other"],
              [b EXCEPT !.iss = Issuer("other")],
              [b EXCEPT !.aud = "other", !.iss = Issuer("other")]}
        \cup {[b EXCEPT !.exp = e] : e \in TokenExps}

\* The tokens of concurrent callers: well-formed and valid, under either key,
\* and one rejected before the lock
CoreJwtTokens ==
    {BaseToken(k, FarExp) : k \in Kids}
    \cup {[BaseToken("k1", FarExp) EXCEPT !.kid = None]}

----------------------------------------------------------------------------
(* jsonwebtoken on the production path *)

\* jsonwebtoken::Algorithm: the algorithms a header can name
LibAlgorithms ==
    {"HS256", "HS384", "HS512", "ES256", "ES384", "RS256", "RS384", "RS512",
     "PS256", "PS384", "PS512", "EdDSA"}

\* Mutant: the validation accepts whichever algorithm the header names
ValidationAnyAlgorithm(pid) ==
    [algorithms |-> LibAlgorithms, validate_exp |-> TRUE, leeway |-> Leeway,
     aud |-> {pid}, iss |-> {Issuer(pid)}]

\* Mutant: set_audience left out, any audience passes
ValidationAnyAudience(pid) ==
    [algorithms |-> {"RS256"}, validate_exp |-> TRUE, leeway |-> Leeway,
     aud |-> ProjectIds, iss |-> {Issuer(pid)}]

\* Validation::new(Algorithm::RS256) with set_audience and set_issuer
Validation(pid) ==
    [algorithms |-> {"RS256"}, validate_exp |-> TRUE, leeway |-> Leeway,
     aud |-> {pid}, iss |-> {Issuer(pid)}]

ClaimsOf(tok) == [aud |-> tok.aud, iss |-> tok.iss, exp |-> tok.exp, doc |-> <<>>]

\* jsonwebtoken::decode(token, key, validation) at time t, key being the public
\* key published under key_kid: the header's alg must be one of the validation's
\* algorithms, the signature must verify under the key, then exp (with leeway),
\* iss and aud are validated.  None is Ok, Some(e) the library's error.
LibDecodeError(tok, key_kid, validation, t) ==
    IF tok.alg \notin validation.algorithms THEN Some("InvalidAlgorithm")
    ELSE IF tok.signer # key_kid THEN Some("InvalidSignature")
    ELSE IF validation.validate_exp /\ tok.exp < t - validation.leeway
         THEN Some("ExpiredSignature")
    ELSE IF tok.iss \notin validation.iss THEN Some("InvalidIssuer")
    ELSE IF tok.aud \notin validation.aud THEN Some("InvalidAudience")
    ELSE None

\* Mutant: the library's validation alone, without the check of lines 161-165
VerifyWithKeysNoRecheck(tok, snap, pid, t) ==
    LET kid == Unwrap(tok.kid)
    IN  IF kid \notin snap.jwks
        THEN Err("Authentication", "no_matching_key")
        ELSE LET e == LibDecodeError(tok, kid, Validation(pid), t)
             IN  IF IsSome(e)
                 THEN ErrD("Authentication", "invalid_token", Unwrap(e))
                 ELSE Ok(ClaimsOf(tok))

\* verify_token, lines 141-167: from the kid lookup in the snapshot the guard
\* gives access to, to the returned result
VerifyWithKeys(tok, snap, pid, t) ==
    LET kid == Unwrap(tok.kid)
    IN  IF kid \notin snap.jwks
        THEN Err("Authentication", "no_matching_key")
        ELSE LET e == LibDecodeError(tok, kid, Validation(pid), t)
             IN  IF IsSome(e)
                 THEN ErrD("Authentication", "invalid_token", Unwrap(e))
                 ELSE IF tok.exp < t
                 THEN Err("Authentication", "token_expired")
                 ELSE Ok(ClaimsOf(tok))

----------------------------------------------------------------------------
(* The emulator path *)

\* The standard base64 alphabet, value v at position v + 1
B64Alphabet ==
    <<"A", "B", "C", "D", "E", "F", "G", "H", "I", "J", "K", "L", "M", "N", "O", "P",
      "Q", "R", "S", "T", "U", "V", "W", "X", "Y", "Z", "a", "b", "c", "d", "e", "f",
      "g", "h", "i", "j", "k", "l", "m", "n", "o", "p", "q", "r", "s", "t", "u", "v",
      "w", "x", "y", "z", "0", "1", "2", "3", "4", "5", "6", "7", "8", "9", "+", "/">>

B64Val(c) ==
    IF \E i \in 1..64 : B64Alphabet[i] = c
    THEN (CHOOSE i \in 1..64 : B64Alphabet[i] = c) - 1
    ELSE -1

RECURSIVE CountTrailingPad(_)
CountTrailingPad(s) ==
    IF s # <<>> /\ s[Len(s)] = "="
    THEN 1 + CountTrailingPad(SubSeq(s, 1, Len(s) - 1))
    ELSE 0

\* The bytes of full groups of four symbols, then of a final group of two or
\* three symbols (v: the symbols' values)
RECURSIVE B64Bytes(_)
B64Bytes(v) ==
    IF Len(v) >= 4
    THEN LET n == ((v[1] * 64 + v[2]) * 64 + v[3]) * 64 + v[4]
         IN  <<n \div 65536, (n \div 256) % 256, n % 256>>
             \o B64Bytes(SubSeq(v, 5, Len(v)))
    ELSE IF Len(v) = 3
    THEN LET n == (v[1] * 64 + v[2]) * 64 + v[3]
         IN  <<n \div 1024, (n \div 4) % 256>>
    ELSE IF Len(v) = 2
    THEN <<(v[1] * 64 + v[2]) \div 16>>
    ELSE <<>>

\* base64::decode with the standard alphabet: '=' only as canonical padding at
\* the end, every other symbol in the alphabet, no final group of one symbol,
\* and no set bits after the last whole byte.  None is the DecodeError.
Base64StdDecode(s) ==
    LET pad == CountTrailingPad(s)
        data == SubSeq(s, 1, Len(s) - pad)
        v == [i \in 1..Len(data) |-> B64Val(data[i])]
        rem == Len(data) % 4
    IN  IF \E i \in 1..Len(v) : v[i] < 0 THEN None
        ELSE IF rem = 1 THEN None
        ELSE IF pad > 0 /\ (pad > 2 \/ (Len(data) + pad) % 4 # 0) THEN None
        ELSE IF rem = 2 /\ v[Len(v)] % 16 # 0 THEN None
        ELSE IF rem = 3 /\ v[Len(v)] % 4 # 0 THEN None
        ELSE Some(B64Bytes(v))

Replace(s, from, to) == [i \in 1..Len(s) |-> IF s[i] = from THEN to ELSE s[i]]

\* Mutant: the paddings of the remainders 2 and 3 exchanged
base64_decode_swapped(input) ==
    LET r == Len(input) % 4
    IN  IF r = 1 THEN None
        ELSE LET padded == CASE r = 0 -> input
                             [] r = 2 -> input \o <<"=">>
                             [] r = 3 -> input \o <<"=", "=">>
             IN  Base64StdDecode(Replace(Replace(padded, "-", "+"), "_", "/"))

\* base64_decode: pad by the length modulo 4, map '-' and '_' to '+' and '/',
\* decode.  None is the Err.
base64_decode(input) ==
    LET r == Len(input) % 4
    IN  IF r = 1 THEN None
        ELSE LET padded == CASE r = 0 -> input
                             [] r = 2 -> input \o <<"=", "=">>
                             [] r = 3 -> input \o <<"=">>
             IN  Base64StdDecode(Replace(Replace(padded, "-", "+"), "_", "/"))

\* serde_json::from_slice::<FirebaseClaims>: a byte sequence in braces stands
\* for a JSON object carrying the required claims; anything else is a serde
\* error.  The claims are identified by the document they came from.
JsonClaims(bytes) ==
    IF Len(bytes) >= 2 /\ bytes[1] = 123 /\ bytes[Len(bytes)] = 125
    THEN Some([aud |-> "", iss |-> <<>>, exp |-> 0, doc |-> bytes])
    ELSE None

\* Mutant: segments after the third are ignored
verify_emulator_token_lenient(token) ==
    LET parts == Split(token, ".")
    IN  IF Len(parts) < 3
        THEN Err("Authentication", "token_format")
        ELSE LET payload_json == base64_decode(parts[2])
             IN  IF ~IsSome(payload_json)
                 THEN Err("Authentication", "payload_decode")
                 ELSE LET claims == JsonClaims(Unwrap(payload_json))
                      IN  IF ~IsSome(claims)
                          THEN Err("Authentication", "payload_invalid")
                          ELSE Ok(Unwrap(claims))

\* Mutant: a token without a signature segment is refused
verify_emulator_token_signed(token) ==
    LET parts == Split(token, ".")
    IN  IF Len(parts) # 3
        THEN Err("Authentication", "token_format")
        ELSE IF parts[3] = <<>>
        THEN Err("Authentication", "signature_missing")
        ELSE LET payload_json == base64_decode(parts[2])
             IN  IF ~IsSome(payload_json)
                 THEN Err("Authentication", "payload_decode")
                 ELSE LET claims == JsonClaims(Unwrap(payload_json))
                      IN  IF ~IsSome(claims)
                          THEN Err("Authentication", "payload_invalid")
                          ELSE Ok(Unwrap(claims))

verify_emulator_token(token) ==
    LET parts == Split(token, ".")
    IN  IF Len(parts) # 3
        THEN Err("Authentication", "token_format")
        ELSE LET payload_json == base64_decode(parts[2])
             IN  IF ~IsSome(payload_json)
                 THEN Err("Authentication", "payload_decode")
                 ELSE LET claims == JsonClaims(Unwrap(payload_json))
                      IN  IF ~IsSome(claims)
                          THEN Err("Authentication", "payload_invalid")
                          ELSE Ok(Unwrap(claims))

RECURSIVE JoinDots(_)
JoinDots(segs) ==
    IF segs = <<>> THEN <<>>
    ELSE IF Len(segs) = 1 THEN segs[1]
    ELSE segs[1] \o <<".">> \o JoinDots(Tail(segs))

RawToken(text) == [NoToken EXCEPT !.raw = text]

\* Payload segments: "{}" unpadded, with url-safe symbols, "{  }" (a length
\* of 2 modulo 4), a non-JSON byte, a last symbol with unused bits set, a
\* length of 1 modulo 4, a symbol outside the alphabet
PayloadSegments ==
    {<<"e", "3", "0">>, <<"e", "-", "B", "9">>, <<"e", "_", "t", "9">>,
     <<"e", "y", "A", "g", "f", "Q">>,
     <<"Q", "Q">>, <<"Q", "R">>, <<"Q">>, <<"e", "3", "!">>}
HeaderSegments == {<<>>, <<"h">>}
SignatureSegments == {<<>>, <<"s">>}

\* The tokens a caller may present in emulator mode
EmuTokens ==
    {RawToken(JoinDots(<<h, pl, sg>>)) :
        h \in HeaderSegments, pl \in PayloadSegments, sg \in SignatureSegments}
    \cup {RawToken(<<>>),
          RawToken(<<"e", "3", "0">>),
          RawToken(JoinDots(<<<<"h">>, <<"e", "3", "0">>>>)),
          RawToken(JoinDots(<<<<"h">>, <<"e", "3", "0">>, <<"s">>, <<>>>>))}

\* The emulator-mode tokens of concurrent callers
CoreEmuTokens ==
    {RawToken(JoinDots(<<h, pl, sg>>)) :
        h \in HeaderSegments,
        pl \in {<<"e", "3", "0">>, <<"Q", "Q">>, <<"Q">>},
        sg \in SignatureSegments}
    \cup {RawToken(JoinDots(<<<<"h">>, <<"e", "3", "0">>>>)),
          RawToken(JoinDots(<<<<"h">>, <<"e", "3", "0">>, <<"s">>, <<>>>>))}

----------------------------------------------------------------------------
(* The verifier as a state machine *)

\* A caller: pc is its position in verify_token (idle, wait_lock: awaiting
\* keys.write(), fetching: awaiting fetch_keys with the guard held, done), tok
\* its argument, res what it returned.  The rest is history of the call: the
\* path taken, the generation of the snapshot held when the call began to wait
\* for the lock if that snapshot was expired then (0 if it was not), the
\* fetches sent and the outcome of the last, whether a refresh had failed
\* before it got the lock, the snapshot its kid was looked up in, and the time
\* at which it returned.
IdleProc ==
    [pc |-> "idle", tok |-> NoToken, res |-> NoResult, path |-> "none",
     stale_gen |-> 0, nfetch |-> 0, fres |-> "none", after_fail |-> FALSE,
     snap |-> NoSnapshot, vnow |-> 0]

NoFetch == [at |-> 0, cc |-> None, status |-> 0]

Init ==
    /\ phase = "unbuilt"
    /\ use_emulator = FALSE
    /\ project_id = ""
    /\ emulator_url = None
    /\ keys = NoSnapshot
    /\ lock = 0
    /\ now = StartTime
    /\ proc = [p \in Procs |-> IdleProc]
    /\ fetches = 0
    /\ newres = NoResult
    /\ fetched = NoFetch
    /\ refresh_failed = FALSE
    /\ ticks = 0
    /\ ncalls = 0

Configs ==
    [project_id : {"kodemcards"}, use_emulator : BOOLEAN,
     emulator_host : {None, Some("localhost")},
     emulator_port : {None, Some(9099)}]

\* The emulator-mode placeholder: no keys, expiring an hour from now
SeededKeys(t) ==
    [jwks |-> {}, expiry |-> t + EmulatorSeedSecs, gen |-> 0]

\* Mutant: a missing host or port falls back to the emulator's usual address
EmulatorUrlDefaulted(cfg) ==
    IF cfg.use_emulator
    THEN [tag |-> "ok",
          url |-> Some(<<"http://", UnwrapOr(cfg.emulator_host, "localhost"),
                         UnwrapOr(cfg.emulator_port, 9099)>>)]
    ELSE [tag |-> "ok", url |-> None]

\* FirebaseAuth::new lines 52-62: the emulator URL, or the early return when
\* the emulator is enabled and host or port is missing
EmulatorUrlOf(cfg) ==
    IF cfg.use_emulator
    THEN IF IsSome(cfg.emulator_host) /\ IsSome(cfg.emulator_port)
         THEN [tag |-> "ok",
               url |-> Some(<<"http://", Unwrap(cfg.emulator_host),
                              Unwrap(cfg.emulator_port)>>)]
         ELSE [tag |-> "err", url |-> None]
    ELSE [tag |-> "ok", url |-> None]

\* Mutant: construction fetches the keys in emulator mode too
ConstructionAlwaysFetches(cfg) == TRUE

\* FirebaseAuth::new line 65: the keys are fetched unless the emulator is used
ConstructionFetches(cfg) == ~cfg.use_emulator

\* Mutant: a failed fetch is tolerated and the verifier built without keys
ReadyWithoutKeys(r) == IF r.tag = "panic" THEN "panicked" ELSE "ready"

\* FirebaseAuth::new line 71: `?` returns the fetch's error, else the verifier
\* is built
PhaseAfterFetch(r) ==
    CASE r.tag = "ok" -> "ready"
      [] r.tag = "err" -> "failed"
      [] OTHER -> "panicked"

\* FirebaseAuth::new with the emulator enabled but host or port missing
NewConfigError(cfg) ==
    /\ phase = "unbuilt"
    /\ EmulatorUrlOf(cfg).tag = "err"
    /\ phase' = "failed"
    /\ newres' = Err("Internal", "emulator_config")
    /\ UNCHANGED <<refresh_failed, use_emulator, project_id, emulator_url, keys, lock, now,
                   proc, fetches, fetched, ticks, ncalls>>

\* FirebaseAuth::new with the emulator enabled: no fetch
NewEmulator(cfg) ==
    /\ phase = "unbuilt"
    /\ EmulatorUrlOf(cfg).tag = "ok"
    /\ ~ConstructionFetches(cfg)
    /\ phase' = "ready"
    /\ use_emulator' = cfg.use_emulator
    /\ project_id' = cfg.project_id
    /\ emulator_url' = EmulatorUrlOf(cfg).url
    /\ keys' = SeededKeys(now)
    /\ newres' = Ok(NoClaims)
    /\ UNCHANGED <<refresh_failed, lock, now, proc, fetches, fetched, ticks, ncalls>>

\* FirebaseAuth::new in production mode, up to the await of fetch_keys
NewStartFetch(cfg) ==
    /\ phase = "unbuilt"
    /\ EmulatorUrlOf(cfg).tag = "ok"
    /\ ConstructionFetches(cfg)
    /\ phase' = "new_fetching"
    /\ use_emulator' = cfg.use_emulator
    /\ project_id' = cfg.project_id
    /\ emulator_url' = EmulatorUrlOf(cfg).url
    /\ fetches' = fetches + 1
    /\ UNCHANGED <<refresh_failed, keys, lock, now, proc, newres,
                   fetched, ticks, ncalls>>

\* FirebaseAuth::new in production mode, from the fetch's completion
NewFetched(resp) ==
    /\ phase = "new_fetching"
    /\ LET r == fetch_keys(resp, now, fetches)
       IN  /\ phase' = PhaseAfterFetch(r)
           /\ keys' = IF r.tag = "ok" THEN r.snap ELSE keys
           /\ newres' = IF r.tag = "ok" THEN Ok(NoClaims) ELSE r.err
           /\ fetched' = IF r.tag = "ok" THEN [at |-> now, cc |-> resp.cc, status |-> resp.status]
                                         ELSE fetched
    /\ UNCHANGED <<refresh_failed, use_emulator, project_id, emulator_url, lock, now, proc,
                   fetches, ticks, ncalls>>

\* impl Default for FirebaseAuth
NewDefault ==
    /\ phase = "unbuilt"
    /\ phase' = "ready"
    /\ use_emulator' = TRUE
    /\ project_id' = "kodemcards"
    /\ emulator_url' = Some(<<"http://", "localhost", 9099>>)
    /\ keys' = SeededKeys(now)
    /\ newres' = Ok(NoClaims)
    /\ UNCHANGED <<refresh_failed, lock, now, proc, fetches, fetched, ticks, ncalls>>

\* The clock advances by the refresh buffer: a snapshot made from max-age=600
\* is fresh, then exactly at its expiry, then past it
TickSteps == {KEYS_REFRESH_BUFFER_SECS}

\* The wall clock advances
Tick(d) ==
    /\ phase = "ready"
    /\ ticks < MaxTicks
    /\ now' = now + d
    /\ ticks' = ticks + 1
    /\ UNCHANGED <<refresh_failed, phase, use_emulator, project_id, emulator_url, keys, lock,
                   proc, fetches, newres, fetched, ncalls>>

\* Mutant: a token whose header does not decode is handed to the emulator path
FallsBackToEmulator(ue, tok) == ue \/ ~tok.hdr_ok

\* verify_token line 120: which path a call takes
TakesEmulatorPath(ue, tok) == ue

\* Mutant: the header is not decoded before the cache, only the kid is checked
HeaderErrorKidOnly(tok) ==
    IF ~IsSome(tok.kid) THEN Some(Err("Authentication", "missing_kid"))
    ELSE None

\* verify_token lines 125-131: decode_header and the kid; Some(e) is the early
\* return.  decode_header fails on a header that is not base64url JSON and on
\* an alg that is not a variant of jsonwebtoken's Algorithm ("none" is none).
HeaderError(tok) ==
    IF ~tok.hdr_ok \/ tok.alg \notin LibAlgorithms
    THEN Some(Err("Authentication", "invalid_header"))
    ELSE IF ~IsSome(tok.kid) THEN Some(Err("Authentication", "missing_kid"))
    ELSE None

\* Mutant: refresh only once the expiry has passed
NeedsRefreshStrict(t, snap) == t > snap.expiry

\* verify_token line 137: SystemTime::now() >= keys_guard.expiry
NeedsRefresh(t, snap) == t >= snap.expiry

Finished(p, r, snap) ==
    [proc[p] EXCEPT !.pc = "done", !.res = r, !.snap = snap, !.vnow = now]

\* verify_token from its call to its first await (the lock), or to its return
VerifyStart(p, tok) ==
    /\ phase = "ready"
    /\ proc[p].pc \in {"idle", "done"}
    /\ \A q \in Procs : q < p => proc[q].pc # "idle"  \* callers numbered by first call
    /\ ncalls < MaxCalls
    /\ ncalls' = ncalls + 1
    /\ LET fresh == [IdleProc EXCEPT !.tok = tok]
       IN  proc' = [proc EXCEPT ![p] =
             IF TakesEmulatorPath(use_emulator, tok)
             THEN [fresh EXCEPT !.pc = "done", !.path = "emulator", !.vnow = now,
                                !.res = verify_emulator_token(tok.raw)]
             ELSE IF IsSome(HeaderError(tok))
             THEN [fresh EXCEPT !.pc = "done", !.path = "real", !.vnow = now,
                                !.res = Unwrap(HeaderError(tok))]
             ELSE [fresh EXCEPT !.pc = "wait_lock", !.path = "real",
                                !.stale_gen =
                                    IF now >= keys.expiry THEN keys.gen ELSE 0]]
    /\ UNCHANGED <<refresh_failed, phase, use_emulator, project_id, emulator_url, keys, lock,
                   now, fetches, newres, fetched, ticks>>

\* verify_token from the grant of the write lock, snapshot fresh: lookup,
\* release, decode, expiry check, return
VerifyFresh(p) ==
    /\ proc[p].pc = "wait_lock"
    /\ lock = 0
    /\ ~NeedsRefresh(now, keys)
    /\ proc' = [proc EXCEPT ![p] =
         Finished(p, VerifyWithKeys(proc[p].tok, keys, project_id, now), keys)]
    /\ UNCHANGED <<refresh_failed, phase, use_emulator, project_id, emulator_url, keys, lock,
                   now, fetches, newres, fetched, ticks, ncalls>>

\* Mutant: the guard is given up for the duration of the fetch
GuardReleasedWhileFetching(p) == 0

\* verify_token lines 134-138: the write guard is held by the caller across
\* the await of fetch_keys
GuardWhileFetching(p) == p

\* verify_token from the grant of the write lock, snapshot expired: the fetch
\* is sent and awaited with the guard held
VerifyStale(p) ==
    /\ proc[p].pc = "wait_lock"
    /\ lock = 0
    /\ NeedsRefresh(now, keys)
    /\ lock' = GuardWhileFetching(p)
    /\ fetches' = fetches + 1
    /\ proc' = [proc EXCEPT ![p].pc = "fetching",
                            ![p].nfetch = proc[p].nfetch + 1,
                            ![p].after_fail = refresh_failed]
    /\ UNCHANGED <<refresh_failed, phase, use_emulator, project_id, emulator_url, keys, now,
                   newres, fetched, ticks, ncalls>>

\* Mutant: the fetched snapshot serves the refreshing call but is not stored
KeysNotInstalled(r, old) == old

\* Mutant: the key set is replaced and the expiry of the old snapshot kept
KeySetReplacedAlone(r, old) ==
    IF r.tag = "ok" THEN [old EXCEPT !.jwks = r.snap.jwks] ELSE old

\* Mutant: a failed fetch empties the cached key set
KeysClearedOnFailure(r, old) ==
    IF r.tag = "ok" THEN r.snap ELSE [old EXCEPT !.jwks = {}]

\* Mutant: the guard is never dropped by the call that refreshed
GuardKeptAfterFetch(p, r) == p

\* Mutant: the guard is released only when the fetch succeeded
GuardLeakedOnFailure(p, r) == IF r.tag = "ok" THEN 0 ELSE p

\* verify_token line 138: the guarded value after `*keys_guard = fetch_keys(..)?`
KeysAfterFetch(r, old) == IF r.tag = "ok" THEN r.snap ELSE old

\* The write guard after the call has left lines 134-150: dropped at line 150,
\* and dropped with the scope on the early returns and on unwinding
GuardAfterFetch(p, r) == 0

\* verify_token from the fetch's completion: install and go on, or return the
\* error (the guard is dropped on every way out)
VerifyFetched(p, resp) ==
    /\ proc[p].pc = "fetching"
    /\ lock = p
    /\ LET r == fetch_keys(resp, now, fetches)
       IN  /\ keys' = KeysAfterFetch(r, keys)
           /\ fetched' = IF r.tag = "ok" THEN [at |-> now, cc |-> resp.cc, status |-> resp.status]
                                         ELSE fetched
           /\ refresh_failed' = (refresh_failed \/ r.tag = "err")
           /\ proc' = [proc EXCEPT ![p] =
                [(IF r.tag = "ok"
                  THEN Finished(p, VerifyWithKeys(proc[p].tok, r.snap,
                                                  project_id, now), r.snap)
                  ELSE Finished(p, r.err, NoSnapshot))
                 EXCEPT !.fres = r.tag]]
           /\ lock' = GuardAfterFetch(p, r)
    /\ UNCHANGED <<phase, use_emulator, project_id, emulator_url, now, fetches,
                   newres, ticks, ncalls>>

\* Construction (but for the arrival of its fetch) and the clock
Environment ==
    \/ \E cfg \in Configs : NewConfigError(cfg)
    \/ \E cfg \in Configs : NewEmulator(cfg)
    \/ \E cfg \in Configs : NewStartFetch(cfg)
    \/ NewDefault
    \/ \E d \in TickSteps : Tick(d)

\* Concurrent callers, each presenting one of the core tokens, the endpoint
\* answering with one of the core responses
Next ==
    \/ Environment
    \/ \E resp \in CoreResponses : NewFetched(resp)
    \/ \E p \in Procs :
         \E tok \in (IF use_emulator THEN CoreEmuTokens ELSE CoreJwtTokens) :
            VerifyStart(p, tok)
    \/ \E p \in Procs : VerifyFresh(p)
    \/ \E p \in Procs : VerifyStale(p)
    \/ \E p \in Procs : \E resp \in CoreResponses : VerifyFetched(p, resp)

Spec == Init /\ [][Next]_vars

\* One caller making its calls one after the other, presenting any token, the
\* endpoint answering with any response, the clock of an emulator-mode
\* verifier also stepping by the lifetime of its seed
NextInputs ==
    \/ Environment
    \/ \E resp \in Responses : NewFetched(resp)
    \/ \E tok \in (IF use_emulator THEN EmuTokens ELSE JwtTokens) :
            VerifyStart(1, tok)
    \/ VerifyFresh(1)
    \/ VerifyStale(1)
    \/ \E resp \in Responses : VerifyFetched(1, resp)
    \/ use_emulator /\ Tick(EmulatorSeedSecs)

SpecInputs == Init /\ [][NextInputs]_vars

\* The responses of an endpoint that answers every refresh with a key set and a
\* max-age beyond the refresh buffer: the snapshot made from it expires later
LiveResponses ==
    {r \in CoreResponses :
        r.net = "ok" /\ IsSome(r.body) /\ MaxAgeTable[r.cc] > KEYS_REFRESH_BUFFER_SECS}

\* A production verifier with concurrent callers whose refreshes succeed
NextLive ==
    \/ \E cfg \in Configs : NewStartFetch(cfg)
    \/ \E resp \in CoreResponses : NewFetched(resp)
    \/ \E d \in TickSteps : Tick(d)
    \/ \E p \in Procs : \E tok \in CoreJwtTokens : VerifyStart(p, tok)
    \/ \E p \in Procs : VerifyFresh(p)
    \/ \E p \in Procs : VerifyStale(p)
    \/ \E p \in Procs : \E resp \in LiveResponses : VerifyFetched(p, resp)

\* tokio's RwLock queues its waiters first in, first out, so a caller waiting
\* at keys.write().await gets the guard once it has been free often enough; the
\* runtime polls a task whose fetch has completed.
Fairness ==
    \A p \in Procs :
        /\ SF_vars(VerifyFresh(p) \/ VerifyStale(p))
        /\ WF_vars(\E resp \in LiveResponses : VerifyFetched(p, resp))

SpecLive == Init /\ [][NextLive]_vars /\ Fairness

----------------------------------------------------------------------------
(* Properties *)

Done(p) == proc[p].pc = "done"
RealDone(p) == Done(p) /\ proc[p].path = "real"

\* C1: on the production path claims are returned only for a token whose kid is
\* in the snapshot the call read, whose signature verifies under the key of
\* that kid, whose audience is the configured project id and whose issuer is
\* "https://securetoken.google.com/" followed by the project id.
C1_ClaimsOnlyFromVerifiedToken ==
    \A p \in Procs :
        (RealDone(p) /\ proc[p].res.tag = "ok") =>
            /\ ~use_emulator
            /\ proc[p].snap.gen >= 1
            /\ IsSome(proc[p].tok.kid)
            /\ Unwrap(proc[p].tok.kid) \in proc[p].snap.jwks
            /\ proc[p].tok.signer = Unwrap(proc[p].tok.kid)
            /\ proc[p].tok.aud = project_id
            /\ proc[p].tok.iss = <<"https://securetoken.google.com/", project_id>>
            /\ proc[p].res.claims = ClaimsOf(proc[p].tok)

C1_Witness ==
    \E p \in Procs : RealDone(p) /\ proc[p].res.tag = "ok"

\* C2 (as claimed): a production call that returns the unknown-key error has
\* performed exactly one refresh before it, also when the snapshot it found
\* had not expired.
C2_UnknownKidRefreshesOnce ==
    \A p \in Procs :
        (RealDone(p) /\ proc[p].res.msg = "no_matching_key") =>
            proc[p].nfetch = 1

\* C3: a call takes the emulator path if and only if use_emulator is set, a
\* failure of the production path included, and use_emulator does not change
\* once the verifier is built.
C3_EmulatorPathOnlyByFlag ==
    /\ [](\A p \in Procs :
            proc[p].path # "none" => (proc[p].path = "emulator" <=> use_emulator))
    /\ [][phase = "ready" => use_emulator' = use_emulator]_vars

C3_Witness ==
    \E p \in Procs :
        /\ RealDone(p) /\ ~use_emulator
        /\ proc[p].res.tag = "err" /\ proc[p].res.msg = "invalid_header"

\* C4: in emulator mode two three-segment tokens with the same payload segment
\* get the same result, whatever their header and signature segments.
C4_EmulatorResultFromPayloadOnly ==
    \A p, q \in Procs :
        (Done(p) /\ Done(q) /\ proc[p].path = "emulator" /\ proc[q].path = "emulator") =>
            LET a == Split(proc[p].tok.raw, ".")
                b == Split(proc[q].tok.raw, ".")
            IN  (Len(a) = 3 /\ Len(b) = 3 /\ a[2] = b[2]) => proc[p].res = proc[q].res

C4_Witness ==
    \E p, q \in Procs :
        /\ Done(p) /\ Done(q) /\ proc[p].path = "emulator" /\ proc[q].path = "emulator"
        /\ LET a == Split(proc[p].tok.raw, ".")
               b == Split(proc[q].tok.raw, ".")
           IN  /\ Len(a) = 3 /\ Len(b) = 3
               /\ a[2] = b[2] /\ a[1] # b[1] /\ a[3] # b[3]
        /\ proc[p].res.tag = "ok"

\* The token of p passes every check of the production path but that of exp
ValidButForExp(p) ==
    /\ IsSome(proc[p].tok.kid)
    /\ Unwrap(proc[p].tok.kid) \in proc[p].snap.jwks
    /\ proc[p].tok.alg = "RS256"
    /\ proc[p].tok.signer = Unwrap(proc[p].tok.kid)
    /\ proc[p].tok.aud = project_id
    /\ proc[p].tok.iss = Issuer(project_id)

\* C5: a production call whose token's exp is before the time of the call's
\* verification returns no claims; when the token is valid in everything else
\* the error is an expiry error, and it is the call's own "token expired"
\* whenever exp is within the library's leeway.
C5_ExpiredRejected ==
    \A p \in Procs :
        (RealDone(p) /\ proc[p].tok.exp < proc[p].vnow) =>
            /\ proc[p].res.tag # "ok"
            /\ ValidButForExp(p) =>
                 IF proc[p].tok.exp >= proc[p].vnow - 60
                 THEN proc[p].res.msg = "token_expired"
                 ELSE /\ proc[p].res.msg = "invalid_token"
                      /\ proc[p].res.detail = "ExpiredSignature"

C5_Witness ==
    \E p \in Procs :
        /\ RealDone(p) /\ proc[p].tok.exp < proc[p].vnow
        /\ proc[p].res.msg = "token_expired"

\* C6 (as claimed): claims returned by the production path have exp strictly
\* after the time of verification.
C6_ClaimsExpStrictlyFuture ==
    \A p \in Procs :
        (RealDone(p) /\ proc[p].res.tag = "ok") =>
            proc[p].res.claims.exp > proc[p].vnow

\* C7: when the fetch of a refresh returns an error, the snapshot stays as it
\* was, the caller gets that error, and no kid is looked up.
C7_FailedRefreshFailsClosed ==
    /\ [](\A p \in Procs :
            proc[p].fres = "err" =>
                /\ proc[p].res.tag = "err"
                /\ proc[p].res.kind = "Internal"
                /\ proc[p].res.msg \in {"fetch_failed", "keys_parse_failed"}
                /\ proc[p].snap = NoSnapshot)
    /\ [][\A p \in Procs :
            (proc[p].pc = "fetching" /\ proc'[p].fres = "err") =>
                keys' = keys]_vars

C7_Witness ==
    \E p \in Procs :
        Done(p) /\ proc[p].fres = "err" /\ now >= keys.expiry /\ keys.gen >= 1

\* C8: a failed refresh fails only the call that made it: the lock is free
\* again, and a later call that finds the snapshot expired sends a new fetch
\* whose snapshot, if it arrives, is installed and used for the verification.
C8_FailureIsPerCall ==
    /\ [](\A p \in Procs :
            /\ lock = p => proc[p].pc = "fetching"
            /\ proc[p].res.kind = "Internal" => proc[p].fres = "err"
            /\ (Done(p) /\ proc[p].after_fail /\ proc[p].fres = "ok") =>
                 /\ proc[p].snap.gen >= 1
                 /\ proc[p].res.msg # "fetch_failed"
                 /\ (proc[p].res.tag = "ok" <=>
                       /\ ValidButForExp(p)
                       /\ proc[p].tok.exp >= proc[p].vnow))
    /\ [][\A p \in Procs :
            (refresh_failed /\ now >= keys.expiry
             /\ proc[p].pc = "wait_lock" /\ proc'[p].pc # "wait_lock") =>
                (proc'[p].pc = "fetching" /\ fetches' = fetches + 1)]_vars
    /\ [][\A p \in Procs :
            (proc[p].pc = "fetching" /\ proc[p].after_fail /\ proc'[p].fres = "ok") =>
                (keys' = proc'[p].snap /\ keys'.gen = fetches)]_vars

C8_Witness ==
    \E p \in Procs :
        Done(p) /\ proc[p].after_fail /\ proc[p].fres = "ok" /\ proc[p].res.tag = "ok"

\* The max-age the claim gives for each header of the model
ClaimedMaxAge(cc) ==
    CASE cc = Some(CcMaxAge600) -> 600
      [] cc = Some(CcPublicMaxAge300) -> 300
      [] cc = Some(CcMaxAge60) -> 60
      [] cc = Some(CcMaxAge0) -> 0
      [] cc = Some(CcPlusSign) -> 900    \* u64's parser takes the sign
      [] cc = Some(CcSpaced) -> 600
      [] OTHER -> 3600

\* C9: a fetched snapshot expires at the time of its fetch plus max-age minus
\* 300 seconds, max-age being 3600 when the header is absent or has no
\* parsable max-age: 300 seconds after the fetch for max-age=600, 3300 seconds
\* for no header.
C9_ExpiryFromMaxAge ==
    keys.gen >= 1 =>
        /\ keys.expiry = fetched.at + (ClaimedMaxAge(fetched.cc) - 300)
        /\ fetched.cc = Some(CcMaxAge600) => keys.expiry = fetched.at + 300
        /\ fetched.cc = None => keys.expiry = fetched.at + 3300

C9_Witness ==
    /\ keys.gen >= 2
    /\ fetched.cc = Some(CcMaxAge600)
    /\ keys.expiry = fetched.at + 300

\* C10: a production call that gets the lock sends a fetch if and only if the
\* time is at or past the snapshot's expiry; otherwise it sends none and leaves
\* the snapshot as it is; the snapshot is replaced only by a caller that found
\* it expired, with what its fetch returned.
C10_FetchIffExpired ==
    /\ [][\A p \in Procs :
            (proc[p].pc = "wait_lock" /\ proc'[p].pc # "wait_lock") =>
                IF now >= keys.expiry
                THEN proc'[p].pc = "fetching" /\ fetches' = fetches + 1 /\ keys' = keys
                ELSE proc'[p].pc = "done" /\ fetches' = fetches /\ keys' = keys]_vars
    /\ [][(phase = "ready" /\ keys' # keys) =>
            /\ now >= keys.expiry
            /\ \E p \in Procs :
                 /\ proc[p].pc = "fetching" /\ proc'[p].fres = "ok"
                 /\ keys' = proc'[p].snap /\ keys'.gen = fetches]_vars

C10_Witness ==
    \E p \in Procs : proc[p].pc = "fetching" /\ now = keys.expiry

\* C11: a call that reads the cache reads the snapshot installed last: the one
\* it reads is the one the cache holds when it reads; the installed snapshots
\* only move forward in installation order; so no call is ahead of the cache
\* and none reads a snapshot older than one installed before its read.
C11_ReadsMonotonic ==
    /\ [](\A p \in Procs :
            (RealDone(p) /\ proc[p].snap # NoSnapshot) =>
                (proc[p].snap.gen >= 1 /\ proc[p].snap.gen <= keys.gen))
    /\ [][phase = "ready" => keys'.gen >= keys.gen]_vars
    /\ [][\A p \in Procs :
            (proc[p].pc \in {"wait_lock", "fetching"} /\ proc'[p].pc = "done"
             /\ proc'[p].snap # NoSnapshot) =>
                proc'[p].snap = keys']_vars

C11_Witness ==
    \E p, q \in Procs :
        /\ RealDone(p) /\ proc[p].nfetch = 1 /\ proc[p].fres = "ok"
        /\ RealDone(q) /\ proc[q].nfetch = 0 /\ proc[q].snap = proc[p].snap
        /\ keys = proc[q].snap /\ keys.gen = 2

\* C12: the snapshot a call reads is whole: what is stored in the cache is at
\* every replacement exactly what one run of fetch_keys returned (or the seed
\* of construction), the snapshot a call reads is the stored one, and two
\* calls that read the snapshot of the same fetch read the same key set and
\* the same expiry.
C12_NoTornSnapshot ==
    /\ [](\A p, q \in Procs :
            (RealDone(p) /\ RealDone(q) /\ proc[p].snap.gen = proc[q].snap.gen) =>
                proc[p].snap = proc[q].snap)
    /\ [](\A p \in Procs :
            (RealDone(p) /\ proc[p].snap.gen = keys.gen) => proc[p].snap = keys)
    /\ [][keys' # keys =>
            \/ keys' = SeededKeys(now)
            \/ \E resp \in Responses :
                  LET r == fetch_keys(resp, now, fetches)
                  IN  r.tag = "ok" /\ keys' = r.snap]_vars
    /\ [][\A p \in Procs :
            (proc[p].pc \in {"wait_lock", "fetching"} /\ proc'[p].pc = "done"
             /\ proc'[p].snap # NoSnapshot) =>
                (proc'[p].snap.jwks = keys'.jwks
                 /\ proc'[p].snap.expiry = keys'.expiry)]_vars

C12_Witness ==
    \E p, q \in Procs :
        /\ RealDone(p) /\ RealDone(q)
        /\ proc[p].snap.gen = 1 /\ proc[q].snap.gen = 2
        /\ proc[p].snap.jwks # proc[q].snap.jwks
        /\ proc[p].snap.expiry # proc[q].snap.expiry
        /\ keys = proc[q].snap

\* C13: when refreshes succeed with an expiry in the future and scheduling is
\* fair, every caller that waits for the cache while the snapshot is expired
\* eventually returns having looked its kid up in a snapshot that had not
\* expired at that time, and no caller ever looks its kid up in an expired one.
C13_AllCallersReadFresh ==
    /\ \A p \in Procs :
          (proc[p].pc = "wait_lock" /\ now >= keys.expiry) ~>
              (RealDone(p) /\ proc[p].snap.gen >= 1
               /\ proc[p].vnow < proc[p].snap.expiry)
    /\ [](\A p \in Procs :
            (RealDone(p) /\ proc[p].snap # NoSnapshot) =>
                proc[p].vnow < proc[p].snap.expiry)

C13_Witness ==
    \E p \in Procs :
        /\ proc[p].pc = "fetching" /\ lock = p
        /\ \A q \in Procs \ {p} : proc[q].pc = "wait_lock"
        /\ now >= keys.expiry /\ keys.gen >= 1

\* C14 (as claimed): while one caller awaits the fetch of its refresh, another
\* caller waiting for the cache can go on to its kid lookup without waiting
\* for that fetch to finish.
C14_RefreshDoesNotBlockReaders ==
    \A p, q \in Procs :
        (p # q /\ proc[p].pc = "fetching" /\ proc[q].pc = "wait_lock") =>
            ENABLED (VerifyFresh(q) \/ VerifyStale(q))

\* C15: construction in production mode sends exactly one fetch; the verifier
\* exists only when that fetch returned a snapshot, which is then the one it
\* holds (never the seeded placeholder); when the fetch fails construction
\* returns its error, nothing is stored and no call is ever served.
C15_ProductionVerifierHoldsFetchedKeys ==
    /\ [](phase = "new_fetching" => (fetches = 1 /\ ~use_emulator))
    /\ []((phase = "ready" /\ ~use_emulator) =>
            /\ newres.tag = "ok"
            /\ fetches >= 1
            /\ keys.gen >= 1
            /\ \E resp \in Responses :
                 /\ resp.cc = fetched.cc /\ resp.status = fetched.status
                 /\ fetch_keys(resp, fetched.at, keys.gen) = FetchOk(keys))
    /\ [](newres.tag \in {"err", "panic"} =>
            /\ phase \in {"failed", "panicked"}
            /\ keys = NoSnapshot
            /\ \A p \in Procs : proc[p].path = "none")
    /\ [][(phase = "new_fetching" /\ phase' = "ready") =>
            (fetches' = 1 /\ keys'.gen = 1 /\ keys' # SeededKeys(now))]_vars
    /\ [][(phase = "new_fetching" /\ keys' = keys) =>
            (phase' \in {"new_fetching", "failed", "panicked"})]_vars

C15_Witness ==
    /\ phase = "failed" /\ ~use_emulator /\ fetches = 1
    /\ newres.tag = "err" /\ newres.msg = "fetch_failed"

\* C16: in emulator mode nothing is ever fetched: the verifier holds the seed
\* (no keys) from construction on, and no call, at any time, sends a fetch,
\* takes the lock or changes the cache.
C16_EmulatorNeverFetches ==
    /\ [](use_emulator =>
            /\ fetches = 0 /\ lock = 0 /\ fetched = NoFetch
            /\ keys = SeededKeys(StartTime)
            /\ \A p \in Procs :
                 /\ proc[p].pc \in {"idle", "done"}
                 /\ proc[p].nfetch = 0
                 /\ proc[p].snap = NoSnapshot)
    /\ [][use_emulator =>
            (keys' = keys /\ fetches' = fetches /\ lock' = lock)]_vars

C16_Witness ==
    /\ use_emulator /\ fetches = 0
    /\ \E p \in Procs :
         /\ Done(p) /\ proc[p].path = "emulator"
         /\ proc[p].vnow >= keys.expiry
         /\ proc[p].res.tag = "ok"

\* C17: construction with the emulator enabled and host or port missing can
\* only return the configuration error, with no verifier and no fetch; with
\* both present it cannot return that error, and the emulator-mode verifier is
\* built with its URL and without a fetch.
C17_EmulatorConfigChecked ==
    /\ phase = "unbuilt" =>
         \A cfg \in Configs :
            IF cfg.use_emulator
               /\ (cfg.emulator_host = None \/ cfg.emulator_port = None)
            THEN /\ ENABLED NewConfigError(cfg)
                 /\ ~ENABLED NewEmulator(cfg)
                 /\ ~ENABLED NewStartFetch(cfg)
            ELSE /\ ~ENABLED NewConfigError(cfg)
                 /\ cfg.use_emulator =>
                      (ENABLED NewEmulator(cfg) /\ ~ENABLED NewStartFetch(cfg))
    /\ newres.msg = "emulator_config" =>
         /\ phase = "failed" /\ newres.tag = "err"
         /\ fetches = 0 /\ keys = NoSnapshot
         /\ \A p \in Procs : proc[p].path = "none"
    /\ (phase = "ready" /\ use_emulator) =>
         /\ newres.tag = "ok" /\ fetches = 0
         /\ emulator_url = Some(<<"http://", "localhost", 9099>>)

C17_Witness ==
    /\ phase = "failed" /\ newres.tag = "err" /\ newres.msg = "emulator_config"
    /\ fetches = 0

\* C18 (as claimed): every error verify_token returns becomes a 401 response.
C18_EveryErrorIsUnauthorized ==
    \A p \in Procs :
        (Done(p) /\ proc[p].res.tag = "err") => into_response(proc[p].res) = 401

\* C19 (as claimed): a stored snapshot was made from a response with a 2xx
\* status.
C19_SnapshotOnlyFromSuccessResponse ==
    keys.gen >= 1 => fetched.status \in 200..299

SegmentCount(raw) == Cardinality({i \in 1..Len(raw) : raw[i] = "."}) + 1

\* C21: in emulator mode a token that does not have exactly three segments
\* (the empty token, one with a trailing dot) gets the malformed-token
\* authentication error, and claims are returned only for three segments.
C21_EmulatorNeedsThreeSegments ==
    \A p \in Procs :
        (Done(p) /\ proc[p].path = "emulator") =>
            /\ SegmentCount(proc[p].tok.raw) # 3 =>
                 proc[p].res = Err("Authentication", "token_format")
            /\ SegmentCount(proc[p].tok.raw) = 3 =>
                 proc[p].res.msg # "token_format"
            /\ proc[p].res.tag = "ok" => SegmentCount(proc[p].tok.raw) = 3

C21_Witness ==
    \E p \in Procs :
        /\ Done(p) /\ proc[p].path = "emulator"
        /\ proc[p].tok.raw = <<"h", ".", "e", "3", "0", ".", "s", ".">>
        /\ proc[p].res.msg = "token_format"

\* The base64url alphabet, and the unpadded base64url encoding of a byte
\* sequence (RFC 4648, section 5)
B64UrlAlphabet == [B64Alphabet EXCEPT ![63] = "-", ![64] = "_"]

RECURSIVE B64UrlEncode(_)
B64UrlEncode(b) ==
    IF Len(b) >= 3
    THEN LET n == (b[1] * 256 + b[2]) * 256 + b[3]
         IN  <<B64UrlAlphabet[(n \div 262144) + 1],
               B64UrlAlphabet[((n \div 4096) % 64) + 1],
               B64UrlAlphabet[((n \div 64) % 64) + 1],
               B64UrlAlphabet[(n % 64) + 1]>>
             \o B64UrlEncode(SubSeq(b, 4, Len(b)))
    ELSE IF Len(b) = 2
    THEN LET n == (b[1] * 256 + b[2]) * 4
         IN  <<B64UrlAlphabet[(n \div 4096) + 1],
               B64UrlAlphabet[((n \div 64) % 64) + 1],
               B64UrlAlphabet[(n % 64) + 1]>>
    ELSE IF Len(b) = 1
    THEN LET n == b[1] * 16
         IN  <<B64UrlAlphabet[(n \div 64) + 1], B64UrlAlphabet[(n % 64) + 1]>>
    ELSE <<>>

\* Byte sequences of 1 to 4 bytes: "{}", two with a byte whose encoding uses
\* '-' or '_', "{  }", "A"
SampleBytes ==
    {<<123, 125>>, <<123, 224, 125>>, <<123, 251, 125>>, <<123, 32, 32, 125>>,
     <<65>>}

InUrlAlphabet(seg) ==
    \A i \in 1..Len(seg) : \E j \in 1..64 : B64UrlAlphabet[j] = seg[i]

\* The last symbol of a segment of length 2 or 3 modulo 4 carries 4 or 2 bits
\* that belong to no byte: whether any of them is set
HasTrailingBits(seg) ==
    LET v == (CHOOSE j \in 1..64 : B64UrlAlphabet[j] = seg[Len(seg)]) - 1
    IN  \/ Len(seg) % 4 = 2 /\ v % 16 # 0
        \/ Len(seg) % 4 = 3 /\ v % 4 # 0

\* The payload segment of a three-segment token
PayloadOf(raw) == Split(raw, ".")[2]

\* C22 (as claimed): every payload segment over the base64url alphabet whose
\* length is 0, 2 or 3 modulo 4 is decoded.
C22_EveryUnpaddedSegmentDecodes ==
    \A p \in Procs :
        (Done(p) /\ proc[p].path = "emulator"
         /\ SegmentCount(proc[p].tok.raw) = 3
         /\ InUrlAlphabet(PayloadOf(proc[p].tok.raw))
         /\ Len(PayloadOf(proc[p].tok.raw)) % 4 \in {0, 2, 3}) =>
            proc[p].res.msg # "payload_decode"

\* C22 (amended): a payload segment of length 1 modulo 4 is rejected; the
\* unpadded base64url encoding of a byte sequence, of length 0, 2 or 3 modulo
\* 4, is decoded to exactly those bytes, '-' and '_' included; a segment that
\* no byte sequence encodes to, its last symbol having unused bits set, is
\* rejected although its symbols and its length are valid.
C22_CanonicalSegmentDecodes ==
    \A p \in Procs :
        (Done(p) /\ proc[p].path = "emulator"
         /\ SegmentCount(proc[p].tok.raw) = 3) =>
            LET seg == PayloadOf(proc[p].tok.raw)
            IN  /\ Len(seg) % 4 = 1 =>
                     proc[p].res = Err("Authentication", "payload_decode")
                /\ \A b \in SampleBytes :
                     seg = B64UrlEncode(b) =>
                        /\ Len(seg) % 4 = (CASE Len(b) % 3 = 0 -> 0
                                             [] Len(b) % 3 = 1 -> 2
                                             [] Len(b) % 3 = 2 -> 3)
                        /\ IF b[1] = 123 /\ b[Len(b)] = 125
                           THEN proc[p].res.tag = "ok"
                                /\ proc[p].res.claims.doc = b
                           ELSE proc[p].res.msg = "payload_invalid"
                /\ (InUrlAlphabet(seg) /\ HasTrailingBits(seg)) =>
                     proc[p].res = Err("Authentication", "payload_decode")

C22_Witness ==
    \E p \in Procs :
        /\ Done(p) /\ proc[p].path = "emulator"
        /\ SegmentCount(proc[p].tok.raw) = 3
        /\ PayloadOf(proc[p].tok.raw) = B64UrlEncode(<<123, 32, 32, 125>>)
        /\ Len(PayloadOf(proc[p].tok.raw)) % 4 = 2
        /\ proc[p].res.tag = "ok"
        /\ proc[p].res.claims.doc = <<123, 32, 32, 125>>

\* C23: a production call whose token's header does not decode, or has no
\* kid, returns an authentication error in the step of the call itself: it
\* never waits for the lock, takes it or fetches, also when the snapshot is
\* expired, and the snapshot, the lock and the fetch count stay as they were.
C23_BadHeaderLeavesCacheAlone ==
    /\ [](\A p \in Procs :
            (RealDone(p) /\ (~proc[p].tok.hdr_ok \/ proc[p].tok.kid = None)) =>
                /\ proc[p].res.tag = "err"
                /\ proc[p].res.kind = "Authentication"
                /\ proc[p].res.msg =
                     (IF proc[p].tok.hdr_ok THEN "missing_kid" ELSE "invalid_header")
                /\ proc[p].nfetch = 0 /\ proc[p].fres = "none"
                /\ proc[p].snap = NoSnapshot)
    /\ [](\A p \in Procs :
            proc[p].pc \in {"wait_lock", "fetching"} =>
                (proc[p].tok.hdr_ok /\ proc[p].tok.kid # None))
    /\ [][\A p \in Procs :
            (~use_emulator /\ proc'[p] # proc[p]
             /\ proc[p].pc \in {"idle", "done"}
             /\ (~proc'[p].tok.hdr_ok \/ proc'[p].tok.kid = None)) =>
                /\ proc'[p].pc = "done"
                /\ keys' = keys /\ lock' = lock /\ fetches' = fetches]_vars

C23_Witness ==
    \E p \in Procs :
        /\ RealDone(p) /\ proc[p].tok.hdr_ok /\ proc[p].tok.kid = None
        /\ proc[p].res.msg = "missing_kid"
        /\ proc[p].vnow >= keys.expiry /\ keys.gen >= 1
        /\ fetches = 1

\* C24 (as claimed): no fetch ends in an arithmetic fault, whatever max-age
\* the response carries, and the expiry stored is not later than the time of
\* the fetch plus that max-age.
C24_DeadlineNeverUnderflows ==
    /\ phase # "panicked"
    /\ \A p \in Procs : proc[p].res.tag # "panic"
    /\ keys.gen >= 1 => keys.expiry <= fetched.at + MaxAgeTable[fetched.cc]

\* q found expired the snapshot that p's fetch, the first one sent after it,
\* replaced with one expiring later than the time of the fetch, and q looked
\* its kid up after that replacement
ReadsAfterRefreshOf(q, p) ==
    /\ p # q /\ RealDone(p) /\ RealDone(q)
    /\ proc[p].nfetch = 1 /\ proc[p].fres = "ok"
    /\ proc[p].snap.expiry > proc[p].vnow
    /\ proc[p].stale_gen >= 1 /\ proc[q].stale_gen = proc[p].stale_gen
    /\ proc[p].snap.gen = proc[p].stale_gen + 1
    /\ proc[q].snap # NoSnapshot /\ proc[q].snap.gen >= proc[p].snap.gen

\* C25 (as claimed): at most one fetch is in flight, and when callers find the
\* same snapshot expired and the first fetch installs one expiring in the
\* future, the others send no fetch and use the installed snapshot.
C25_ExactlyOneFetch ==
    /\ Cardinality({p \in Procs : proc[p].pc = "fetching"}) <= 1
    /\ \A p, q \in Procs :
         ReadsAfterRefreshOf(q, p) =>
            (proc[q].nfetch = 0 /\ proc[q].snap = proc[p].snap)

\* C25 (amended): at most one fetch is in flight, always that of the holder of
\* the lock; a fetch is sent only by a caller that got the free lock and found
\* the snapshot expired; and when callers find the same snapshot expired and
\* the first fetch installs one expiring in the future, every other caller
\* that gets the lock before that expiry sends no fetch and uses the
\* installed snapshot.
C25_SingleFlight ==
    /\ [](Cardinality({p \in Procs : proc[p].pc = "fetching"}) <= 1)
    /\ [](\A p \in Procs : proc[p].pc = "fetching" <=> lock = p)
    /\ [](\A p, q \in Procs :
            (ReadsAfterRefreshOf(q, p) /\ proc[q].vnow < proc[p].snap.expiry) =>
                (proc[q].nfetch = 0 /\ proc[q].snap = proc[p].snap))
    /\ [][(phase = "ready" /\ fetches' # fetches) =>
            /\ fetches' = fetches + 1
            /\ lock = 0 /\ now >= keys.expiry
            /\ \E p \in Procs :
                 /\ proc[p].pc = "wait_lock" /\ proc'[p].pc = "fetching"
                 /\ lock' = p]_vars

C25_Witness ==
    \E p, q \in Procs :
        /\ ReadsAfterRefreshOf(q, p)
        /\ proc[q].vnow < proc[p].snap.expiry
        /\ proc[q].nfetch = 0 /\ proc[q].snap = proc[p].snap
        /\ fetches = 2

====
